---- MODULE Spec2Model ----
(***************************************************************************)
(* A model of emmental's LoggingManager                                    *)
(* (src/src/emmental/logging/logging_manager.py): the progress counters,   *)
(* the evaluation / checkpointing triggers and the log writer calls.       *)
(*                                                                         *)
(* Python numbers (int and float, mixed by the arithmetic) are modelled as *)
(* exact rationals <<numerator, denominator>> in lowest terms; floating-   *)
(* point rounding is not modelled.  A call that raises leaves the          *)
(* exception's name in ret.                                                *)
(***************************************************************************)
EXTENDS Integers, Sequences, FiniteSets, TLC

VARIABLES
    \* configuration read by __init__
    counter_unit, evaluation_freq, n_batches_per_epoch,
    checkpointing, checkpointing_freq, writer,
    \* the counters
    sample_count, sample_total, batch_count, batch_total,
    epoch_count, epoch_total, unit_count, unit_total, trigger_count,
    \* collaborators: the add_scalar calls of the latest write_log, and the
    \* stamp of the latest checkpointer.checkpoint call
    writer_calls, checkpoint_calls,
    \* the latest call on the manager and what it returned (or raised)
    last_op, ret,
    \* history: the constructor's batch_count argument, the calls to update so
    \* far and the sum of the batch sizes they were given
    init_batch_count, n_updates, sum_batch_sizes,
    \* the training loop's count of its calls to trigger_checkpointing since
    \* the last one that returned True
    ckpt_calls,
    \* Meta.config as __init__ read it
    meta_config,
    \* the collaborator calls made by the latest close
    close_calls,
    \* accuracy_f1_scorer: its label arrays and the dictionary it returned
    golds, preds, metrics,
    \* the writer's record of every step an add_scalar call has handed it
    emitted_steps,
    \* one rehydration of __init__ taken step by step: where it is, the
    \* counter it reduces and the subtractions it has made
    rehydration,
    \* two managers that differ in the epoch_count argument only, driven by
    \* the same calls one after the other: the calls made, what each run
    \* showed after every call, and the two epoch_count arguments
    replay

cfgvars == <<counter_unit, evaluation_freq, n_batches_per_epoch,
             checkpointing, checkpointing_freq, writer,
             init_batch_count, meta_config>>
countvars == <<sample_count, batch_count, epoch_count, unit_count>>
totalvars == <<sample_total, batch_total, epoch_total, unit_total>>
histvars == <<n_updates, sum_batch_sizes>>
\* what belongs to one kind of caller only
scorervars == <<golds, preds, metrics>>
othervars == <<scorervars, emitted_steps, rehydration, replay>>
auxvars == <<ckpt_calls, close_calls, othervars>>
vars == <<cfgvars, countvars, totalvars, trigger_count, writer_calls,
          checkpoint_calls, last_op, ret, histvars, auxvars>>

----------------------------------------------------------------------------
\* Bounds of the model

\* calls to update in a run of Spec, and the largest batch size
MaxUpdates == 2
MaxBatchSize == 1
\* resumed batch_count / epoch_count arguments in Spec
MaxResumeBatch == 1
MaxResumeEpoch == 1
\* resumed batch_count / epoch_count arguments in SpecConstruct
MaxConstructBatch == 11
MaxConstructEpoch == 5
\* calls to update in a run of the training loop (SpecLoop)
MaxLoopUpdates == 8
MaxLabels == 4
MaxLoopResumeBatch == 3
MaxScript == 3

----------------------------------------------------------------------------
\* Exact rational arithmetic for Python's numbers

RECURSIVE GCD(_, _)
GCD(a, b) == IF b = 0 THEN a ELSE GCD(b, a % b)

Abs(n) == IF n < 0 THEN -n ELSE n

Norm(n, d) ==
    LET g == GCD(Abs(n), Abs(d))
        s == IF d < 0 THEN -1 ELSE 1
    IN  <<(s * n) \div g, (s * d) \div g>>

R(n) == <<n, 1>>
RAdd(x, y) == Norm(x[1] * y[2] + y[1] * x[2], x[2] * y[2])
RSub(x, y) == Norm(x[1] * y[2] - y[1] * x[2], x[2] * y[2])
RMul(x, y) == Norm(x[1] * y[1], x[2] * y[2])
RDiv(x, y) == Norm(x[1] * y[2], x[2] * y[1])
RGe(x, y) == x[1] * y[2] >= y[1] * x[2]
RLt(x, y) == x[1] * y[2] < y[1] * x[2]
IsInt(x) == x[2] = 1

\* int(x): truncation toward zero (only used on positive numbers)
PyInt(x) == x[1] \div x[2]

----------------------------------------------------------------------------
\* Inputs

CounterUnits == {"sample", "batch", "epoch"}
\* counter_unit values of Meta.config, one of them unrecognized
CounterUnitOpts == CounterUnits \cup {"step"}
\* writer values of Meta.config, one of them unrecognized
WriterOpts == {"None", "json", "tensorboard", "csv"}
EvaluationFreqs == {R(1), <<3, 2>>}
LoopEvaluationFreqs == {R(1), R(2), <<3, 2>>}
BatchesPerEpoch == {R(1), R(2)}
CheckpointFreqs == {R(1), <<5, 2>>}
ConstructEvaluationFreqs == {R(1), R(2), R(4), <<3, 2>>}
ConstructBatchesPerEpoch == {R(1), R(2), <<3, 2>>}
BatchSizes == 0..MaxBatchSize
MetricDicts == { <<>>, << <<"loss", <<1, 2>> >>, <<"accuracy", R(1)>> >> }
\* label arrays of accuracy_f1_scorer: binary labels, the same length
LabelArrays == UNION { [1..n -> {0, 1}] : n \in 1..MaxLabels }
\* probs, which accuracy_f1_scorer hands on unread
NoProbs == <<>>
\* the calls a replayed script is made of
ReplayOps ==
    { [name |-> "update", batch_size |-> 1, metric_dict |-> <<>>] } \cup
    { [name |-> name, batch_size |-> 0, metric_dict |-> <<>>] :
        name \in {"reset", "trigger_evaluation", "trigger_checkpointing",
                  "checkpoint_model"} } \cup
    { [name |-> "write_log", batch_size |-> 0,
       metric_dict |-> << <<"loss", <<1, 2>> >> >>] }
\* model references handed to close
Models == {"model_a", "model_b"}

----------------------------------------------------------------------------
\* accuracy_f1_scorer (metrics/accuracy_f1.py)

\* dict()
EmptyDict == [key \in {} |-> R(0)]

\* d.update(e): the entries of e are added to d and replace those with the
\* same key
DictUpdate(d, e) == e @@ d

\* the number of positions where gold is g and pred is p
RECURSIVE CountPairs(_, _, _, _)
CountPairs(gs, ps, g, p) ==
    IF gs = <<>> THEN 0
    ELSE (IF Head(gs) = g /\ Head(ps) = p THEN 1 ELSE 0)
         + CountPairs(Tail(gs), Tail(ps), g, p)

\* emmental.metrics.accuracy.accuracy_scorer: the share of positions where
\* pred equals gold, under the key accuracy
accuracy_scorer(gs, probs, ps) ==
    [accuracy |-> Norm(CountPairs(gs, ps, 1, 1) + CountPairs(gs, ps, 0, 0),
                       Len(gs))]

\* emmental.metrics.fbeta.f1_scorer: the binary F1 of label 1, under the key
\* f1 (0 when there is no positive gold and no positive pred)
f1_scorer(gs, probs, ps) ==
    LET tp == CountPairs(gs, ps, 1, 1)
        fp == CountPairs(gs, ps, 0, 1)
        fn == CountPairs(gs, ps, 1, 0)
    IN  [f1 |-> IF 2 * tp + fp + fn = 0 THEN R(0)
                ELSE Norm(2 * tp, 2 * tp + fp + fn)]

\* np.mean([a, b])
Mean2(a, b) == RDiv(RAdd(a, b), R(2))

\* a slip: the sum is not divided
accuracy_f1_scorer_sum(gs, probs, ps) ==
    LET m1 == DictUpdate(EmptyDict, accuracy_scorer(gs, probs, ps))
        m2 == DictUpdate(m1, f1_scorer(gs, probs, ps))
    IN  DictUpdate(m2, [accuracy_f1 |-> RAdd(m2["accuracy"], m2["f1"])])

accuracy_f1_scorer(gs, probs, ps) ==
    LET m1 == DictUpdate(EmptyDict, accuracy_scorer(gs, probs, ps))
        m2 == DictUpdate(m1, f1_scorer(gs, probs, ps))
    IN  DictUpdate(m2, [accuracy_f1 |-> Mean2(m2["accuracy"], m2["f1"])])

----------------------------------------------------------------------------
\* __init__

\* a slip: > for >= in the loop's condition
RECURSIVE Rehydrate_strict(_, _)
Rehydrate_strict(count, threshold) ==
    IF ~RGe(threshold, count)
    THEN Rehydrate_strict(RSub(count, threshold), threshold)
    ELSE count

\* while count >= threshold: count -= threshold
RECURSIVE Rehydrate(_, _)
Rehydrate(count, threshold) ==
    IF RGe(count, threshold)
    THEN Rehydrate(RSub(count, threshold), threshold)
    ELSE count

\* a slip: the resumed batch_count is stored as it is
InitBatchCount_raw(unit, freq, nbpe, bc) == bc

InitBatchCount(unit, freq, nbpe, bc) ==
    IF bc # R(0)
    THEN IF unit = "batch" THEN Rehydrate(bc, freq)
         ELSE IF unit = "epoch" THEN Rehydrate(bc, RMul(freq, nbpe))
         ELSE bc
    ELSE bc

\* a slip: the batch branch subtracts evaluation_freq, not its epoch equivalent
InitEpochCount_unscaled(unit, freq, nbpe, ec) ==
    IF ec # R(0)
    THEN IF unit = "epoch" THEN Rehydrate(ec, freq)
         ELSE IF unit = "batch" THEN Rehydrate(ec, freq)
         ELSE ec
    ELSE ec

InitEpochCount(unit, freq, nbpe, ec) ==
    IF ec # R(0)
    THEN IF unit = "epoch" THEN Rehydrate(ec, freq)
         ELSE IF unit = "batch" THEN Rehydrate(ec, RDiv(freq, nbpe))
         ELSE ec
    ELSE ec

\* a slip: an unrecognized writer option is taken as no writer
MakeWriter_lenient(writer_opt) ==
    CASE writer_opt = "None" -> "None"
      [] writer_opt = "json" -> "LogWriter"
      [] writer_opt = "tensorboard" -> "TensorBoardWriter"
      [] OTHER -> "None"

MakeWriter(writer_opt) ==
    CASE writer_opt = "None" -> "None"
      [] writer_opt = "json" -> "LogWriter"
      [] writer_opt = "tensorboard" -> "TensorBoardWriter"
      [] OTHER -> "ValueError"

\* what __init__ raises under this configuration, or "None"
InitRaises(unit, wopt) ==
    IF unit \notin {"sample", "batch", "epoch"} THEN "ValueError"
    ELSE IF MakeWriter(wopt) = "ValueError" THEN "ValueError"
    ELSE "None"

\* the fields of LoggingManager(n_batches_per_epoch = nbpe, epoch_count = ec,
\* batch_count = bc) under the configuration unit, freq, ckpt, cfreq, wopt
\* a change that is not in the code: unit_count and unit_total start as the
\* counter and total counter_unit selects
NewManager_mirrored(unit, freq, nbpe, ckpt, cfreq, wopt, ec, bc) ==
    LET count == IF unit = "batch" THEN InitBatchCount(unit, freq, nbpe, bc)
                 ELSE IF unit = "epoch" THEN InitEpochCount(unit, freq, nbpe, ec)
                 ELSE R(0)
        total == IF unit = "batch" THEN bc
                 ELSE IF unit = "epoch" THEN ec
                 ELSE R(0)
    IN  [ counter_unit |-> unit,
          evaluation_freq |-> freq,
          n_batches_per_epoch |-> nbpe,
          checkpointing |-> ckpt,
          checkpointing_freq |-> IF ckpt THEN PyInt(cfreq) ELSE 0,
          writer |-> MakeWriter(wopt),
          sample_count |-> R(0),
          sample_total |-> R(0),
          batch_count |-> InitBatchCount(unit, freq, nbpe, bc),
          batch_total |-> bc,
          epoch_count |-> InitEpochCount(unit, freq, nbpe, ec),
          epoch_total |-> ec,
          unit_count |-> count,
          unit_total |-> total,
          trigger_count |-> 0 ]

NewManager(unit, freq, nbpe, ckpt, cfreq, wopt, ec, bc) ==
    [ counter_unit |-> unit,
      evaluation_freq |-> freq,
      n_batches_per_epoch |-> nbpe,
      checkpointing |-> ckpt,
      checkpointing_freq |-> IF ckpt THEN PyInt(cfreq) ELSE 0,
      writer |-> MakeWriter(wopt),
      sample_count |-> R(0),
      sample_total |-> R(0),
      batch_count |-> InitBatchCount(unit, freq, nbpe, bc),
      batch_total |-> bc,
      epoch_count |-> InitEpochCount(unit, freq, nbpe, ec),
      epoch_total |-> ec,
      unit_count |-> R(0),
      unit_total |-> R(0),
      trigger_count |-> 0 ]

\* a manager that is not constructed yet (no field is set)
Blank ==
    [ counter_unit |-> "unset",
      evaluation_freq |-> R(0),
      n_batches_per_epoch |-> R(0),
      checkpointing |-> FALSE,
      checkpointing_freq |-> 0,
      writer |-> "unset",
      sample_count |-> R(0),
      sample_total |-> R(0),
      batch_count |-> R(0),
      batch_total |-> R(0),
      epoch_count |-> R(0),
      epoch_total |-> R(0),
      unit_count |-> R(0),
      unit_total |-> R(0),
      trigger_count |-> 0 ]

\* Meta.config["logging_config"] as far as __init__ reads it: checkpoint_freq
\* is read inside "if self.checkpointing" only (R(0) stands for not read)
MetaConfig(unit, freq, ckpt, cfreq, wopt) ==
    [ counter_unit |-> unit,
      evaluation_freq |-> freq,
      checkpointing |-> ckpt,
      checkpoint_freq |-> IF ckpt THEN cfreq ELSE R(0),
      writer |-> wopt ]

NoConfig == MetaConfig("unset", R(0), FALSE, R(0), "unset")

\* the state holds manager m
Holds(m) ==
    /\ counter_unit = m.counter_unit
    /\ evaluation_freq = m.evaluation_freq
    /\ n_batches_per_epoch = m.n_batches_per_epoch
    /\ checkpointing = m.checkpointing
    /\ checkpointing_freq = m.checkpointing_freq
    /\ writer = m.writer
    /\ sample_count = m.sample_count
    /\ sample_total = m.sample_total
    /\ batch_count = m.batch_count
    /\ batch_total = m.batch_total
    /\ epoch_count = m.epoch_count
    /\ epoch_total = m.epoch_total
    /\ unit_count = m.unit_count
    /\ unit_total = m.unit_total
    /\ trigger_count = m.trigger_count

\* the next state holds manager m
Becomes(m) ==
    /\ counter_unit' = m.counter_unit
    /\ evaluation_freq' = m.evaluation_freq
    /\ n_batches_per_epoch' = m.n_batches_per_epoch
    /\ checkpointing' = m.checkpointing
    /\ checkpointing_freq' = m.checkpointing_freq
    /\ writer' = m.writer
    /\ sample_count' = m.sample_count
    /\ sample_total' = m.sample_total
    /\ batch_count' = m.batch_count
    /\ batch_total' = m.batch_total
    /\ epoch_count' = m.epoch_count
    /\ epoch_total' = m.epoch_total
    /\ unit_count' = m.unit_count
    /\ unit_total' = m.unit_total
    /\ trigger_count' = m.trigger_count

NoHistory ==
    /\ writer_calls = <<>>
    /\ checkpoint_calls = <<>>
    /\ n_updates = 0
    /\ sum_batch_sizes = 0
    /\ ckpt_calls = 0
    /\ close_calls = <<>>
    /\ emitted_steps = {}

\* accuracy_f1_scorer has not been called, and no rehydration is followed
\* step by step
NoScores ==
    /\ golds = <<>>
    /\ preds = <<>>
    /\ metrics = EmptyDict

NoReplay ==
    replay = [phase |-> "off", script |-> <<>>, first |-> <<>>,
              second |-> <<>>, epoch_counts |-> <<R(0), R(0)>>]

NoRehydration ==
    rehydration = [pc |-> "idle", which |-> "none", unit |-> "unset",
                   freq |-> R(0), nbpe |-> R(0), resumed |-> R(0),
                   count |-> R(0), iterations |-> 0]

\* The states after a construction that succeeded, for these inputs
Constructed(freqs, wopts, max_bc, max_ec) ==
    \E unit \in CounterUnits, freq \in freqs, nbpe \in BatchesPerEpoch,
       ckpt \in BOOLEAN, cfreq \in CheckpointFreqs, wopt \in wopts,
       bc \in 0..max_bc, ec \in 0..max_ec :
        /\ ckpt = FALSE => cfreq = R(1)
        /\ Holds(NewManager(unit, freq, nbpe, ckpt, cfreq, wopt, R(ec), R(bc)))
        /\ init_batch_count = R(bc)
        /\ meta_config = MetaConfig(unit, freq, ckpt, cfreq, wopt)
        /\ last_op = "__init__"
        /\ ret = "None"
        /\ NoHistory
        /\ NoScores
        /\ NoRehydration

Init ==
    /\ Constructed(EvaluationFreqs, {"None", "tensorboard"},
                   MaxResumeBatch, MaxResumeEpoch)
    /\ NoReplay

\* Before the construction
NoManager ==
    /\ Holds(Blank)
    /\ init_batch_count = R(0)
    /\ meta_config = NoConfig
    /\ last_op = "new"
    /\ ret = "None"
    /\ NoHistory

InitNew == NoManager /\ NoScores /\ NoRehydration /\ NoReplay

\* LoggingManager(nbpe, ec, bc) under a configuration of Meta.config
Construct ==
    /\ last_op = "new"
    /\ \E unit \in CounterUnitOpts, freq \in ConstructEvaluationFreqs,
          nbpe \in ConstructBatchesPerEpoch, ckpt \in BOOLEAN,
          cfreq \in CheckpointFreqs, wopt \in WriterOpts,
          bc \in 0..MaxConstructBatch, ec \in 0..MaxConstructEpoch :
        /\ ckpt = FALSE => cfreq = R(1)
        /\ IF InitRaises(unit, wopt) = "None"
           THEN Becomes(NewManager(unit, freq, nbpe, ckpt, cfreq, wopt, R(ec), R(bc)))
           ELSE Becomes(Blank)
        /\ init_batch_count' = R(bc)
        /\ meta_config' = MetaConfig(unit, freq, ckpt, cfreq, wopt)
        /\ ret' = InitRaises(unit, wopt)
    /\ last_op' = "__init__"
    /\ UNCHANGED <<writer_calls, checkpoint_calls, n_updates, sum_batch_sizes,
                   auxvars>>

----------------------------------------------------------------------------
\* update

UnitOf(sample, batch, epoch, old) ==
    LET afterSample == IF counter_unit = "sample" THEN sample ELSE old
    IN  IF counter_unit = "batch" THEN batch
        ELSE IF counter_unit = "epoch" THEN epoch
        ELSE afterSample

\* a slip: the running total restarts from the since-last counter
SampleTotalAfter_count(batch_size) == RAdd(sample_count, R(batch_size))

\* self.sample_total += batch_size
SampleTotalAfter(batch_size) == RAdd(sample_total, R(batch_size))

Update(batch_size) ==
    /\ sample_count' = RAdd(sample_count, R(batch_size))
    /\ sample_total' = SampleTotalAfter(batch_size)
    /\ batch_count' = RAdd(batch_count, R(1))
    /\ batch_total' = RAdd(batch_total, R(1))
    /\ epoch_count' = RDiv(batch_count', n_batches_per_epoch)
    /\ epoch_total' = RDiv(batch_total', n_batches_per_epoch)
    /\ unit_count' = UnitOf(sample_count', batch_count', epoch_count', unit_count)
    /\ unit_total' = UnitOf(sample_total', batch_total', epoch_total', unit_total)
    /\ last_op' = "update"
    /\ ret' = "None"
    /\ n_updates' = n_updates + 1
    /\ sum_batch_sizes' = sum_batch_sizes + batch_size
    /\ UNCHANGED <<cfgvars, trigger_count, writer_calls, checkpoint_calls>>

----------------------------------------------------------------------------
\* reset, trigger_evaluation, trigger_checkpointing

ResetCounters ==
    /\ sample_count' = R(0)
    /\ batch_count' = R(0)
    /\ epoch_count' = R(0)
    /\ unit_count' = R(0)

Reset ==
    /\ ResetCounters
    /\ last_op' = "reset"
    /\ ret' = "None"
    /\ UNCHANGED <<cfgvars, totalvars, trigger_count, writer_calls,
                   checkpoint_calls, histvars>>

\* a slip: > for >=
EvaluationSatisfied_strict == ~RGe(evaluation_freq, unit_count)

\* satisfied = self.unit_count >= self.evaluation_freq
EvaluationSatisfied == RGe(unit_count, evaluation_freq)

\* a slip: the counters are reset before the test's outcome is looked at
TriggerEvaluation_eager ==
    /\ IF EvaluationSatisfied
       THEN /\ trigger_count' = trigger_count + 1
            /\ ret' = "True"
       ELSE /\ UNCHANGED trigger_count
            /\ ret' = "False"
    /\ ResetCounters
    /\ last_op' = "trigger_evaluation"
    /\ UNCHANGED <<cfgvars, totalvars, writer_calls, checkpoint_calls, histvars>>

TriggerEvaluation ==
    /\ IF EvaluationSatisfied
       THEN /\ trigger_count' = trigger_count + 1
            /\ ResetCounters
            /\ ret' = "True"
       ELSE /\ UNCHANGED <<trigger_count, countvars>>
            /\ ret' = "False"
    /\ last_op' = "trigger_evaluation"
    /\ UNCHANGED <<cfgvars, totalvars, writer_calls, checkpoint_calls, histvars>>

\* a slip: > for >=
CheckpointingSatisfied_strict == trigger_count > checkpointing_freq

\* satisfied = self.trigger_count >= self.checkpointing_freq
CheckpointingSatisfied == trigger_count >= checkpointing_freq

\* a slip: the early return for disabled checkpointing is missing
TriggerCheckpointing_noreturn ==
    /\ IF CheckpointingSatisfied
       THEN /\ trigger_count' = 0
            /\ ret' = "True"
       ELSE /\ UNCHANGED trigger_count
            /\ ret' = "False"
    /\ last_op' = "trigger_checkpointing"
    /\ UNCHANGED <<cfgvars, countvars, totalvars, writer_calls, checkpoint_calls,
                   histvars>>

TriggerCheckpointing ==
    /\ IF ~checkpointing
       THEN /\ ret' = "False"
            /\ UNCHANGED trigger_count
       ELSE IF CheckpointingSatisfied
       THEN /\ trigger_count' = 0
            /\ ret' = "True"
       ELSE /\ UNCHANGED trigger_count
            /\ ret' = "False"
    /\ last_op' = "trigger_checkpointing"
    /\ UNCHANGED <<cfgvars, countvars, totalvars, writer_calls, checkpoint_calls,
                   histvars>>

----------------------------------------------------------------------------
\* write_log, checkpoint_model

\* a slip: the epoch counter is logged as it is
LogUnit_unscaled == unit_total

\* a slip: the since-last counter is logged for the running total
LogUnit_count ==
    IF counter_unit = "epoch"
    THEN RMul(unit_count, n_batches_per_epoch)
    ELSE unit_count

LogUnit ==
    IF counter_unit = "epoch"
    THEN RMul(unit_total, n_batches_per_epoch)
    ELSE unit_total

\* one add_scalar(metric_name, metric_value, log_unit) per item, in order
AddScalars(metric_dict, log_unit) ==
    [i \in 1..Len(metric_dict) |->
        <<metric_dict[i][1], metric_dict[i][2], log_unit>>]

\* a slip that is not in the code: write_log returns at once without a writer
WriteLog_guarded(metric_dict) ==
    /\ ret' = "None"
    /\ writer_calls' = IF writer = "None" THEN <<>>
                       ELSE AddScalars(metric_dict, LogUnit)
    /\ last_op' = "write_log"
    /\ UNCHANGED <<cfgvars, countvars, totalvars, trigger_count,
                   checkpoint_calls, histvars>>

WriteLog(metric_dict) ==
    /\ IF writer = "None" /\ Len(metric_dict) > 0
       THEN /\ ret' = "AttributeError"
            /\ UNCHANGED writer_calls
       ELSE /\ ret' = "None"
            /\ writer_calls' = AddScalars(metric_dict, LogUnit)
    /\ last_op' = "write_log"
    /\ UNCHANGED <<cfgvars, countvars, totalvars, trigger_count,
                   checkpoint_calls, histvars>>

\* checkpointer.checkpoint(unit_total, model, optimizer, lr_scheduler,
\* metric_dict): the four references are handed on unread, and only the
\* stamp is recorded; without checkpointing there is no self.checkpointer
CheckpointModel ==
    /\ IF ~checkpointing
       THEN /\ ret' = "AttributeError"
            /\ UNCHANGED checkpoint_calls
       ELSE /\ ret' = "None"
            /\ checkpoint_calls' = <<unit_total>>
    /\ last_op' = "checkpoint_model"
    /\ UNCHANGED <<cfgvars, countvars, totalvars, trigger_count,
                   writer_calls, histvars>>

\* checkpointer.load_best_model(model) belongs to the Checkpointer: it hands
\* back the model it was given or the best one it saved
LoadBestModel(model) == {model, "best_model"}

\* close: self.writer.close() comes first and unguarded, so it raises when
\* self.writer is None; then, with checkpointing, load_best_model and clear
Close(model) ==
    /\ IF writer = "None"
       THEN /\ ret' = "AttributeError"
            /\ close_calls' = <<>>
       ELSE IF checkpointing
            THEN \E best \in LoadBestModel(model) :
                    /\ close_calls' = << <<"writer.close">>,
                                         <<"checkpointer.load_best_model", model, best>>,
                                         <<"checkpointer.clear">> >>
                    /\ ret' = best
            ELSE /\ close_calls' = << <<"writer.close">> >>
                 /\ ret' = model
    /\ last_op' = "close"
    /\ UNCHANGED <<cfgvars, countvars, totalvars, trigger_count,
                   writer_calls, checkpoint_calls, histvars>>

----------------------------------------------------------------------------
\* Any caller: every method, in any order

CallUpdate ==
    /\ n_updates < MaxUpdates
    /\ \E batch_size \in BatchSizes : Update(batch_size)
    /\ UNCHANGED auxvars

CallReset == Reset /\ UNCHANGED auxvars

CallTriggerEvaluation == TriggerEvaluation /\ UNCHANGED auxvars

CallTriggerCheckpointing == TriggerCheckpointing /\ UNCHANGED auxvars

CallWriteLog ==
    /\ \E metric_dict \in MetricDicts : WriteLog(metric_dict)
    /\ UNCHANGED auxvars

CallCheckpointModel == CheckpointModel /\ UNCHANGED auxvars

Next ==
    \/ CallUpdate
    \/ CallReset
    \/ CallTriggerEvaluation
    \/ CallTriggerCheckpointing
    \/ CallWriteLog
    \/ CallCheckpointModel

Spec == Init /\ [][Next]_vars

\* The training loop: update after every batch, trigger_evaluation after
\* every update, trigger_checkpointing after every evaluation trigger
InitLoop ==
    /\ Constructed(LoopEvaluationFreqs, {"None"}, MaxLoopResumeBatch, 0)
    /\ NoReplay

LoopUpdate ==
    /\ \/ last_op = "__init__"
       \/ last_op = "trigger_evaluation" /\ ret = "False"
       \/ last_op = "trigger_checkpointing"
    /\ n_updates < MaxLoopUpdates
    /\ \E batch_size \in BatchSizes : Update(batch_size)
    /\ UNCHANGED auxvars

LoopTriggerEvaluation ==
    /\ last_op = "update"
    /\ TriggerEvaluation
    /\ UNCHANGED auxvars

LoopTriggerCheckpointing ==
    /\ last_op = "trigger_evaluation" /\ ret = "True"
    /\ TriggerCheckpointing
    /\ ckpt_calls' = IF ret' = "True" THEN 0 ELSE ckpt_calls + 1
    /\ UNCHANGED <<close_calls, othervars>>

NextLoop ==
    \/ LoopUpdate
    \/ LoopTriggerEvaluation
    \/ LoopTriggerCheckpointing

SpecLoop == InitLoop /\ [][NextLoop]_vars

\* The construction alone, over wider ranges of its arguments
NextConstruct == Construct

SpecConstruct == InitNew /\ [][NextConstruct]_vars

\* A run that ends in close: updates, evaluations and checkpoints, then close
InitClose ==
    /\ Constructed(EvaluationFreqs, {"None", "json", "tensorboard"},
                   MaxResumeBatch, 0)
    /\ NoReplay

CallClose ==
    /\ last_op # "close"
    /\ \E model \in Models : Close(model)
    /\ UNCHANGED <<ckpt_calls, othervars>>

NextClose ==
    \/ (last_op # "close" /\ CallUpdate)
    \/ (last_op # "close" /\ CallTriggerEvaluation)
    \/ (last_op # "close" /\ CallCheckpointModel)
    \/ CallClose

SpecClose == InitClose /\ [][NextClose]_vars

\* A manager with a writer, whose writer keeps every step it is handed
InitWriter ==
    /\ Constructed(EvaluationFreqs, {"json", "tensorboard"},
                   MaxResumeBatch, MaxResumeEpoch)
    /\ NoReplay

WriterWriteLog ==
    /\ \E metric_dict \in MetricDicts : WriteLog(metric_dict)
    /\ emitted_steps' = emitted_steps \cup
          { writer_calls'[i][3] : i \in 1..Len(writer_calls') }
    /\ UNCHANGED <<ckpt_calls, close_calls, scorervars, rehydration, replay>>

NextWriter ==
    \/ CallUpdate
    \/ CallReset
    \/ CallTriggerEvaluation
    \/ WriterWriteLog

SpecWriter == InitWriter /\ [][NextWriter]_vars

\* The two rehydrations of __init__ (of batch_count, lines 73-81, and of
\* epoch_count, lines 87-95), one loop iteration per step
LoopBranches(which) ==
    IF which = "batch_count" THEN {"batch", "epoch"} ELSE {"epoch", "batch"}

\* the threshold the loop of that branch compares with and subtracts
LoopThreshold(which, unit, freq, nbpe) ==
    IF which = "batch_count"
    THEN IF unit = "batch" THEN freq ELSE RMul(freq, nbpe)
    ELSE IF unit = "epoch" THEN freq ELSE RDiv(freq, nbpe)

InitRehydrate ==
    /\ NoManager
    /\ NoScores
    /\ NoReplay
    /\ \E which \in {"batch_count", "epoch_count"}, unit \in CounterUnits,
          freq \in ConstructEvaluationFreqs, nbpe \in ConstructBatchesPerEpoch,
          resumed \in 0..MaxConstructBatch :
        rehydration = [pc |-> "enter", which |-> which, unit |-> unit,
                       freq |-> freq, nbpe |-> nbpe, resumed |-> R(resumed),
                       count |-> R(resumed), iterations |-> 0]

\* if count != 0: if counter_unit == ...: / elif counter_unit == ...:
RehydrateEnter ==
    /\ rehydration.pc = "enter"
    /\ rehydration' =
          [rehydration EXCEPT !.pc =
              IF /\ rehydration.resumed # R(0)
                 /\ rehydration.unit \in LoopBranches(rehydration.which)
              THEN "loop" ELSE "done"]

\* a slip: the loop goes on while the counter is not negative
RehydrateSubtract_nonneg ==
    /\ rehydration.pc = "loop"
    /\ RGe(rehydration.count, R(0))
    /\ rehydration' =
          [rehydration EXCEPT
              !.count = RSub(@, LoopThreshold(rehydration.which, rehydration.unit,
                                              rehydration.freq, rehydration.nbpe)),
              !.iterations = @ + 1]

\* while count >= threshold: count -= threshold
RehydrateSubtract ==
    /\ rehydration.pc = "loop"
    /\ RGe(rehydration.count,
           LoopThreshold(rehydration.which, rehydration.unit,
                         rehydration.freq, rehydration.nbpe))
    /\ rehydration' =
          [rehydration EXCEPT
              !.count = RSub(@, LoopThreshold(rehydration.which, rehydration.unit,
                                              rehydration.freq, rehydration.nbpe)),
              !.iterations = @ + 1]

\* the loop's test fails
RehydrateExit ==
    /\ rehydration.pc = "loop"
    /\ ~RGe(rehydration.count,
            LoopThreshold(rehydration.which, rehydration.unit,
                          rehydration.freq, rehydration.nbpe))
    /\ rehydration' = [rehydration EXCEPT !.pc = "done"]

rehydrateframe == <<cfgvars, countvars, totalvars, trigger_count, writer_calls,
                    checkpoint_calls, last_op, ret, histvars, ckpt_calls,
                    close_calls, scorervars, emitted_steps, replay>>

NextRehydrate ==
    \/ (RehydrateEnter /\ UNCHANGED rehydrateframe)
    \/ (RehydrateSubtract /\ UNCHANGED rehydrateframe)
    \/ (RehydrateExit /\ UNCHANGED rehydrateframe)

\* the interpreter runs the loop on: a step that can be taken is taken
SpecRehydrate ==
    InitRehydrate /\ [][NextRehydrate]_vars /\ WF_vars(NextRehydrate)

\* Two managers under one configuration, n_batches_per_epoch and
\* batch_count, with different epoch_count arguments: the first is driven by
\* a script of calls, then the second is constructed and driven by the same
\* script
InitReplay ==
    /\ Constructed(EvaluationFreqs, {"tensorboard"},
                   MaxResumeBatch, MaxResumeEpoch)
    /\ checkpointing
    /\ \E other \in 0..MaxResumeEpoch :
        /\ epoch_total[1] < other
        /\ replay = [phase |-> "first", script |-> <<>>, first |-> <<>>,
                     second |-> <<>>,
                     epoch_counts |-> <<epoch_total, R(other)>>]

Perform(op) ==
    CASE op.name = "update" -> Update(op.batch_size)
      [] op.name = "reset" -> Reset
      [] op.name = "trigger_evaluation" -> TriggerEvaluation
      [] op.name = "trigger_checkpointing" -> TriggerCheckpointing
      [] op.name = "checkpoint_model" -> CheckpointModel
      [] op.name = "write_log" -> WriteLog(op.metric_dict)

\* what a call shows: its result, the calls the writer and the checkpointer
\* have received and, from the first update on, the progress state
Shown ==
    <<last_op', ret', writer_calls', checkpoint_calls',
      IF n_updates' > 0
      THEN <<sample_count', batch_count', epoch_count', unit_count',
             sample_total', batch_total', epoch_total', unit_total',
             trigger_count'>>
      ELSE <<>> >>

replayframe == <<ckpt_calls, close_calls, scorervars, emitted_steps,
                 rehydration>>

ReplayFirst ==
    /\ replay.phase = "first"
    /\ Len(replay.script) < MaxScript
    /\ \E op \in ReplayOps :
        /\ Perform(op)
        /\ replay' = [replay EXCEPT !.script = Append(@, op),
                                    !.first = Append(@, Shown)]
    /\ UNCHANGED replayframe

\* the second manager: LoggingManager(n_batches_per_epoch, epoch_count =
\* the other one, batch_count) under the same Meta.config
ReplayConstruct ==
    /\ replay.phase = "first"
    /\ Len(replay.script) = MaxScript
    /\ Becomes(NewManager(meta_config.counter_unit, meta_config.evaluation_freq,
                          n_batches_per_epoch, meta_config.checkpointing,
                          meta_config.checkpoint_freq, meta_config.writer,
                          replay.epoch_counts[2], init_batch_count))
    /\ writer_calls' = <<>>
    /\ checkpoint_calls' = <<>>
    /\ n_updates' = 0
    /\ sum_batch_sizes' = 0
    /\ last_op' = "__init__"
    /\ ret' = "None"
    /\ replay' = [replay EXCEPT !.phase = "second"]
    /\ UNCHANGED <<init_batch_count, meta_config, replayframe>>

ReplaySecond ==
    /\ replay.phase = "second"
    /\ Len(replay.second) < Len(replay.script)
    /\ Perform(replay.script[Len(replay.second) + 1])
    /\ replay' = [replay EXCEPT !.second = Append(@, Shown)]
    /\ UNCHANGED replayframe

NextReplay ==
    \/ ReplayFirst
    \/ ReplayConstruct
    \/ ReplaySecond

SpecReplay == InitReplay /\ [][NextReplay]_vars

\* One call of accuracy_f1_scorer on a pair of label arrays
InitScorer ==
    /\ NoManager
    /\ golds \in LabelArrays
    /\ preds \in LabelArrays
    /\ Len(golds) = Len(preds)
    /\ metrics = EmptyDict
    /\ NoRehydration
    /\ NoReplay

CallScorer ==
    /\ metrics = EmptyDict
    /\ metrics' = accuracy_f1_scorer(golds, NoProbs, preds)
    /\ UNCHANGED <<golds, preds, cfgvars, countvars, totalvars, trigger_count,
                   writer_calls, checkpoint_calls, last_op, ret, histvars,
                   ckpt_calls, close_calls, emitted_steps, rehydration,
                   replay>>

NextScorer == CallScorer

SpecScorer == InitScorer /\ [][NextScorer]_vars

----------------------------------------------------------------------------
\* Properties

\* the fields of the manager, and the calls its collaborators received
fields == <<cfgvars, countvars, totalvars, trigger_count>>

\* C1: trigger_evaluation returns True if and only if unit_count >=
\* evaluation_freq at the time of the call; when it returns True,
\* trigger_count grows by exactly 1, the four since-last counters are 0
\* afterwards and the four totals are unchanged.
C1_TriggerEvaluationContract ==
    [][last_op' = "trigger_evaluation" =>
        /\ ret' \in {"True", "False"}
        /\ (ret' = "True") <=>
             (unit_count[1] * evaluation_freq[2] >= evaluation_freq[1] * unit_count[2])
        /\ ret' = "True" =>
             /\ trigger_count' = trigger_count + 1
             /\ sample_count' = R(0) /\ batch_count' = R(0)
             /\ epoch_count' = R(0) /\ unit_count' = R(0)
             /\ UNCHANGED totalvars]_vars

\* trigger_evaluation has returned True exactly at the threshold, with
\* non-zero totals left in place
C1_Witness ==
    /\ last_op = "trigger_evaluation" /\ ret = "True"
    /\ trigger_count = 1
    /\ countvars = <<R(0), R(0), R(0), R(0)>>
    /\ unit_total = evaluation_freq
    /\ sample_total # R(0) /\ batch_total # R(0) /\ epoch_total # R(0)

\* C2: in the training loop with checkpointing enabled (trigger_count starts
\* at 0, trigger_checkpointing is called once after each True return of
\* trigger_evaluation), the call number k since the last True return (or
\* since construction) returns True iff k = checkpointing_freq, k never
\* exceeds checkpointing_freq, a True return resets trigger_count to 0 and
\* the count of calls starts again.
C2_CheckpointCycle ==
    [][(last_op' = "trigger_checkpointing" /\ checkpointing) =>
        /\ ckpt_calls + 1 <= checkpointing_freq
        /\ (ret' = "True") <=> (ckpt_calls + 1 = checkpointing_freq)
        /\ (ret' = "False") <=> (ckpt_calls + 1 < checkpointing_freq)
        /\ ret' = "True" => (trigger_count' = 0 /\ ckpt_calls' = 0)
        /\ ret' = "False" => trigger_count' = trigger_count]_vars

\* the second cycle of a manager with checkpointing_freq = 2 ends: the
\* fourth evaluation trigger, the fourth call, the second True
C2_Witness ==
    /\ last_op = "trigger_checkpointing" /\ ret = "True"
    /\ checkpointing /\ checkpointing_freq = 2
    /\ counter_unit = "batch" /\ evaluation_freq = R(2)
    /\ init_batch_count = R(0) /\ n_updates = 8
    /\ trigger_count = 0

\* C3: with checkpointing disabled, trigger_checkpointing returns False
\* whatever trigger_count is, and changes nothing (trigger_count is not
\* reset).
C3_DisabledCheckpointing ==
    [][(last_op' = "trigger_checkpointing" /\ ~checkpointing) =>
        /\ ret' = "False"
        /\ UNCHANGED <<fields, writer_calls, checkpoint_calls>>]_vars

\* trigger_checkpointing has returned False on a manager without
\* checkpointing that has counted two evaluation triggers
C3_Witness ==
    /\ last_op = "trigger_checkpointing" /\ ret = "False"
    /\ ~checkpointing
    /\ trigger_count = 2
    /\ n_updates = 2

\* C4 as stated: after N >= 1 calls to update, sample_total is the sum of
\* the N batch sizes and batch_total is N.
C4_TotalsCountUpdates ==
    n_updates >= 1 =>
        /\ sample_total = R(sum_batch_sizes)
        /\ batch_total = R(n_updates)

\* C4, amended: after N calls to update, however the other calls are
\* interleaved, sample_total is the sum of the N batch sizes and batch_total
\* is the constructor's batch_count argument plus N.
C4_TotalsCountUpdatesSinceResume ==
    /\ sample_total = R(sum_batch_sizes)
    /\ batch_total = RAdd(init_batch_count, R(n_updates))

\* two updates of a resumed manager with an evaluation trigger between them
C4_Witness ==
    /\ last_op = "update" /\ n_updates = 2
    /\ trigger_count = 1
    /\ init_batch_count = R(1)
    /\ sum_batch_sizes = 2
    /\ batch_total = R(3)

\* C5: in every state, epoch_total * n_batches_per_epoch = batch_total.
C5_EpochTotalIsBatchTotalPerEpoch ==
    RMul(epoch_total, n_batches_per_epoch) = batch_total

\* the counter selected by counter_unit, since the last trigger and in total
SelectedCount ==
    CASE counter_unit = "sample" -> sample_count
      [] counter_unit = "batch" -> batch_count
      [] counter_unit = "epoch" -> epoch_count

SelectedTotal ==
    CASE counter_unit = "sample" -> sample_total
      [] counter_unit = "batch" -> batch_total
      [] counter_unit = "epoch" -> epoch_total

\* C6: in every state, unit_count is the since-last counter selected by
\* counter_unit and unit_total is the matching total.
C6_UnitMirrorsSelected ==
    /\ unit_count = SelectedCount
    /\ unit_total = SelectedTotal

\* C7: no call ever decreases sample_total, batch_total, epoch_total or
\* unit_total.
C7_TotalsNeverDecrease ==
    [][/\ RGe(sample_total', sample_total)
       /\ RGe(batch_total', batch_total)
       /\ RGe(epoch_total', epoch_total)
       /\ RGe(unit_total', unit_total)]_vars

\* C8: with counter_unit = batch and a positive integer evaluation_freq, the
\* construction leaves batch_count = b mod evaluation_freq and batch_total =
\* b, for the batch_count argument b.
C8_BatchRehydrationIsModulo ==
    (/\ last_op = "__init__" /\ ret = "None"
     /\ counter_unit = "batch" /\ IsInt(evaluation_freq)) =>
        /\ IsInt(init_batch_count)
        /\ batch_count = R(init_batch_count[1] % evaluation_freq[1])
        /\ batch_total = init_batch_count

\* the construction resumed with batch_count = 2 * evaluation_freq + 3
C8_Witness ==
    /\ last_op = "__init__" /\ ret = "None"
    /\ counter_unit = "batch" /\ evaluation_freq = R(4)
    /\ init_batch_count = R(11)
    /\ batch_count = R(3)

\* whole multiples of a threshold
IsMultiple(x, threshold) ==
    LET q == RDiv(x, threshold) IN IsInt(q) /\ q[1] >= 0

\* the thresholds C9 names for batch_count and epoch_count
BatchThreshold ==
    IF counter_unit = "epoch"
    THEN RMul(evaluation_freq, n_batches_per_epoch)
    ELSE evaluation_freq

EpochThreshold ==
    IF counter_unit = "batch"
    THEN RDiv(evaluation_freq, n_batches_per_epoch)
    ELSE evaluation_freq

\* batch_count and epoch_count are the arguments (kept in init_batch_count
\* and, by line 86, in epoch_total) reduced modulo their thresholds
ReducedModuloThresholds ==
    /\ RLt(batch_count, BatchThreshold)
    /\ IsMultiple(RSub(init_batch_count, batch_count), BatchThreshold)
    /\ RLt(epoch_count, EpochThreshold)
    /\ IsMultiple(RSub(epoch_total, epoch_count), EpochThreshold)

\* C9 as stated: for every counter_unit, after the construction batch_count
\* and epoch_count are below their thresholds and differ from the arguments
\* by whole multiples of them.
C9_RehydratedForEveryUnit ==
    (last_op = "__init__" /\ ret = "None") => ReducedModuloThresholds

\* C9, amended: that holds for counter_unit batch and epoch; for
\* counter_unit sample the construction leaves batch_count and epoch_count
\* equal to the arguments.
C9_RehydratedForBatchAndEpoch ==
    (last_op = "__init__" /\ ret = "None") =>
        IF counter_unit \in {"batch", "epoch"}
        THEN ReducedModuloThresholds
        ELSE /\ batch_count = init_batch_count
             /\ epoch_count = epoch_total

\* a construction with counter_unit = batch that reduced both arguments by
\* different thresholds (4 and 4 / 2)
C9_Witness ==
    /\ last_op = "__init__" /\ ret = "None"
    /\ counter_unit = "batch"
    /\ evaluation_freq = R(4) /\ n_batches_per_epoch = R(2)
    /\ init_batch_count = R(11) /\ batch_count = R(3)
    /\ epoch_total = R(5) /\ epoch_count = R(1)

\* the step write_log hands to the writer
ExpectedStep ==
    IF counter_unit = "epoch"
    THEN <<unit_total[1] * n_batches_per_epoch[1],
           unit_total[2] * n_batches_per_epoch[2]>>
    ELSE unit_total

\* C10: with a writer configured, write_log(metric_dict) makes exactly one
\* add_scalar(name, value, step) call per entry of metric_dict, in order,
\* with step = unit_total (sample, batch) or unit_total *
\* n_batches_per_epoch (epoch), and changes no field of the manager.
C10_WriteLogSteps ==
    [][\A metric_dict \in MetricDicts :
        (WriteLog(metric_dict) /\ writer # "None") =>
            /\ ret' = "None"
            /\ Len(writer_calls') = Len(metric_dict)
            /\ \A i \in 1..Len(metric_dict) :
                /\ writer_calls'[i][1] = metric_dict[i][1]
                /\ writer_calls'[i][2] = metric_dict[i][2]
                /\ writer_calls'[i][3][1] * ExpectedStep[2]
                     = ExpectedStep[1] * writer_calls'[i][3][2]
            /\ UNCHANGED fields]_vars

\* write_log of two metrics at unit_total = 3/2 epochs of 2 batches: both
\* steps are 3
C10_Witness ==
    /\ last_op = "write_log" /\ ret = "None"
    /\ counter_unit = "epoch"
    /\ n_batches_per_epoch = R(2) /\ unit_total = <<3, 2>>
    /\ Len(writer_calls) = 2
    /\ writer_calls[1][3] = R(3) /\ writer_calls[2][3] = R(3)

\* C11: close(model) succeeds for every writer configuration: it returns a
\* model reference in every case, having closed the writer when one is
\* configured and closed nothing when the writer option is none.
ModelRefs == Models \cup {"best_model"}

C11_CloseSucceeds ==
    last_op = "close" =>
        /\ ret \in ModelRefs
        /\ (writer = "None") = (close_calls = <<>>)

\* C12: construction fails with a configuration error exactly when
\* counter_unit is not one of sample, batch, epoch or the writer option is not
\* one of none, json, tensorboard; otherwise it succeeds with sample_count,
\* sample_total, unit_count, unit_total and trigger_count all 0.
C12_ConstructionFailsIffBadConfig ==
    last_op = "__init__" =>
        /\ ret \in {"None", "ValueError"}
        /\ (ret = "ValueError") =
              (\/ meta_config.counter_unit \notin {"sample", "batch", "epoch"}
               \/ meta_config.writer \notin {"None", "json", "tensorboard"})
        /\ ret = "None" =>
              /\ sample_count = R(0) /\ sample_total = R(0)
              /\ unit_count = R(0) /\ unit_total = R(0)
              /\ trigger_count = 0
              /\ counter_unit = meta_config.counter_unit

C12_Witness ==
    /\ last_op = "__init__"
    /\ ret = "ValueError"
    /\ meta_config.counter_unit = "batch"
    /\ meta_config.writer = "csv"
    /\ meta_config.checkpointing

\* C13: accuracy_f1_scorer returns the union of the accuracy scorer's and the
\* F1 scorer's dictionaries (the F1 scorer's entry winning on a shared key)
\* plus the key accuracy_f1, whose value is exactly (accuracy + f1) / 2 of
\* the values in the returned dictionary; the keys accuracy, f1 and
\* accuracy_f1 are always there.
C13_AccuracyF1IsMean ==
    metrics # EmptyDict =>
        LET acc == accuracy_scorer(golds, NoProbs, preds)
            f1 == f1_scorer(golds, NoProbs, preds)
        IN  /\ DOMAIN metrics = DOMAIN acc \cup DOMAIN f1 \cup {"accuracy_f1"}
            /\ {"accuracy", "f1", "accuracy_f1"} \subseteq DOMAIN metrics
            /\ \A key \in DOMAIN f1 : metrics[key] = f1[key]
            /\ \A key \in DOMAIN acc \ DOMAIN f1 : metrics[key] = acc[key]
            /\ RMul(metrics["accuracy_f1"], R(2))
                  = RAdd(metrics["accuracy"], metrics["f1"])

\* golds = [1, 0, 1, 1], preds = [1, 0, 0, 1]: accuracy 3/4, f1 4/5, mean 31/40
C13_Witness ==
    /\ golds = <<1, 0, 1, 1>>
    /\ preds = <<1, 0, 0, 1>>
    /\ metrics # EmptyDict
    /\ metrics["accuracy"] = <<3, 4>>
    /\ metrics["f1"] = <<4, 5>>
    /\ metrics["accuracy_f1"] = <<31, 40>>

\* C14: a trigger_evaluation call that returns False changes no field of the
\* progress state; a trigger_checkpointing call, whatever it returns, changes
\* none of the sample, batch, epoch and unit counters nor any total: it can
\* only reset trigger_count to 0.
C14_TriggerFrames ==
    [][/\ (last_op' = "trigger_evaluation" /\ ret' = "False") =>
             UNCHANGED <<countvars, totalvars, trigger_count, cfgvars>>
       /\ last_op' = "trigger_checkpointing" =>
             /\ UNCHANGED <<countvars, totalvars, cfgvars>>
             /\ trigger_count' \in {trigger_count, 0}]_vars

\* trigger_evaluation has returned False below the threshold, with every
\* counter and total non-zero and left in place
C14_Witness ==
    /\ last_op = "trigger_evaluation" /\ ret = "False"
    /\ sample_count # R(0) /\ batch_count # R(0)
    /\ epoch_count # R(0) /\ unit_count # R(0)
    /\ unit_total = unit_count
    /\ trigger_count = 0

\* C15: the step indices handed to the writer are monotonic: over any
\* sequence of operations on one manager (default or resumed, any
\* counter_unit), the step of a write_log call is never smaller than the
\* step of any earlier write_log call.
C15_StepsNeverDecrease ==
    [][last_op' = "write_log" =>
        \A i \in 1..Len(writer_calls') : \A earlier \in emitted_steps :
            writer_calls'[i][3][1] * earlier[2]
              >= earlier[1] * writer_calls'[i][3][2]]_vars

\* a resumed manager has logged at three different steps: before the first
\* update and after each of two updates
C15_Witness ==
    /\ last_op = "write_log" /\ ret = "None"
    /\ init_batch_count # R(0)
    /\ Cardinality(emitted_steps) = 3
    /\ writer_calls # <<>>
    /\ \A earlier \in emitted_steps : RGe(writer_calls[1][3], earlier)

\* C16: close(model) with checkpointing enabled performs, in this order, the
\* writer's close, checkpointer.load_best_model(model) and
\* checkpointer.clear(), and returns the model load_best_model returned; with
\* checkpointing disabled it makes no checkpointer call and returns the
\* model it was given.
C16_CloseOrder ==
    [][\A model \in Models : Close(model) =>
        IF checkpointing
        THEN /\ Len(close_calls') = 3
             /\ close_calls'[1] = <<"writer.close">>
             /\ close_calls'[2][1] = "checkpointer.load_best_model"
             /\ close_calls'[2][2] = model
             /\ close_calls'[3] = <<"checkpointer.clear">>
             /\ ret' = close_calls'[2][3]
        ELSE /\ close_calls' = << <<"writer.close">> >>
             /\ ret' = model]_vars

\* C17 as it is written: without a writer, every write_log call, for every
\* metric_dict, ends in the missing-writer error and leaves the progress
\* state unchanged.
C17_WriteLogAlwaysFails ==
    [][\A metric_dict \in MetricDicts :
        (WriteLog(metric_dict) /\ writer = "None") =>
            /\ ret' = "AttributeError"
            /\ UNCHANGED fields]_vars

\* C17: without a writer, a write_log call ends in the missing-writer error
\* exactly when metric_dict has at least one entry; with an empty
\* metric_dict it returns normally; either way no writer call is made and
\* the progress state is unchanged.
C17_WriteLogFailsOnEntries ==
    [][\A metric_dict \in MetricDicts :
        (WriteLog(metric_dict) /\ writer = "None") =>
            /\ Len(metric_dict) > 0 => ret' = "AttributeError"
            /\ Len(metric_dict) = 0 => ret' = "None"
            /\ writer_calls' = <<>>
            /\ UNCHANGED fields]_vars

\* write_log has raised on a manager without a writer that has progressed
C17_Witness ==
    /\ last_op = "write_log" /\ ret = "AttributeError"
    /\ writer = "None"
    /\ writer_calls = <<>>
    /\ unit_total # R(0) /\ unit_count # R(0)

\* the value __init__ stores for the counter this rehydration reduces
StoredCount ==
    IF rehydration.which = "batch_count"
    THEN InitBatchCount(rehydration.unit, rehydration.freq, rehydration.nbpe,
                        rehydration.resumed)
    ELSE InitEpochCount(rehydration.unit, rehydration.freq, rehydration.nbpe,
                        rehydration.resumed)

\* iterations * threshold <= resumed count
WithinIterationBound ==
    LET threshold == LoopThreshold(rehydration.which, rehydration.unit,
                                   rehydration.freq, rehydration.nbpe)
    IN  rehydration.iterations * threshold[1] * rehydration.resumed[2]
          <= rehydration.resumed[1] * threshold[2]

\* C18: construction terminates: for every counter_unit, every positive
\* evaluation_freq and n_batches_per_epoch and every non-negative resumed
\* batch_count and epoch_count, each rehydration loop finishes, after at most
\* resumed count / threshold subtractions, with the counter __init__ stores.
C18_RehydrationTerminates ==
    /\ [](rehydration.pc # "idle" => WithinIterationBound)
    /\ [](rehydration.pc = "done" => rehydration.count = StoredCount)
    /\ <>(rehydration.pc = "done")

\* the batch_count loop of an epoch-mode manager has ended after 3
\* subtractions of 3 = 3/2 * 2 from 11
C18_Witness ==
    /\ rehydration.pc = "done"
    /\ rehydration.which = "batch_count" /\ rehydration.unit = "epoch"
    /\ rehydration.freq = <<3, 2>> /\ rehydration.nbpe = R(2)
    /\ rehydration.resumed = R(11)
    /\ rehydration.iterations = 3
    /\ rehydration.count = R(2)

\* C19: in the training loop (trigger_evaluation once after every update),
\* with counter_unit = batch and a positive integer evaluation_freq,
\* trigger_evaluation returns True exactly after the updates that make
\* batch_total a multiple of evaluation_freq, for every resumed batch_count
\* >= 0: a resumed run evaluates at the same cumulative batch boundaries as
\* an uninterrupted one.
C19_EvaluatesAtBatchBoundaries ==
    (/\ last_op = "trigger_evaluation"
     /\ counter_unit = "batch"
     /\ IsInt(evaluation_freq)) =>
        /\ batch_total = RAdd(init_batch_count, R(n_updates))
        /\ (ret = "True") = (batch_total[1] % evaluation_freq[1] = 0)

\* resumed at batch 3 with evaluation_freq = 2: the third update, the one
\* that brings batch_total to 6, triggers the second evaluation
C19_Witness ==
    /\ last_op = "trigger_evaluation" /\ ret = "True"
    /\ counter_unit = "batch" /\ evaluation_freq = R(2)
    /\ init_batch_count = R(3)
    /\ n_updates = 3 /\ batch_total = R(6)

\* C20: the resumed epoch_count argument never influences behaviour: two
\* managers with the same configuration, n_batches_per_epoch and batch_count
\* but different epoch_count, driven by the same calls, give the same
\* trigger_evaluation and trigger_checkpointing results, the same write_log
\* steps and the same checkpoint stamps, and their progress states are
\* identical from the first update on.
C20_EpochCountHasNoInfluence ==
    replay.phase = "second" =>
        /\ replay.epoch_counts[1] # replay.epoch_counts[2]
        /\ \A i \in 1..Len(replay.second) : replay.second[i] = replay.first[i]

\* in epoch mode both managers have logged before their first update, then
\* updated and evaluated
C20_Witness ==
    /\ replay.phase = "second"
    /\ Len(replay.second) = MaxScript
    /\ counter_unit = "epoch" /\ evaluation_freq = R(1)
    /\ n_batches_per_epoch = R(1)
    /\ replay.script[1].name = "write_log"
    /\ replay.script[2].name = "update"
    /\ replay.script[3].name = "trigger_evaluation"
    /\ ret = "True"

====
